---------------------------- MODULE Spec2Model ----------------------------
(***************************************************************************)
(* Presence tracking of the office monitoring system: the monitoring loop  *)
(* of VisionSystem (modules/vision_module.py) and the attendance           *)
(* operations of DatabaseManager (modules/database_module.py).             *)
(*                                                                         *)
(* Time is counted in minutes (the unit of ENTRY_EXIT_COOLDOWN_MINUTES);   *)
(* every datetime.utcnow() of a step reads the clock `now`, every          *)
(* date.today() reads `today`.                                             *)
(*                                                                         *)
(* Specifications: Spec (presence tracking and the attendance table over   *)
(* process runs and dates), SpecTick (one run, every step of a tick told   *)
(* apart, the published frame), SpecControl (the control surface, the      *)
(* frame publisher and the gallery, with two thread slots, within one      *)
(* minute), SpecMatch (recognize_face over every small gallery),           *)
(* SpecReload (recognize_face statement by statement against gallery       *)
(* reloads), SpecStore (log_entry statement by statement for two callers), *)
(* SpecAbsence (runs that are never stopped, with the scheduling of the    *)
(* threads), SpecStop (SpecControl with the scheduling of the threads).    *)
(***************************************************************************)
EXTENDS Integers, Sequences, FiniteSets, TLC

\* ------------------------------------------------------------- constants

\* Config.ENTRY_EXIT_COOLDOWN_MINUTES
Cooldown == 5

\* timedelta(minutes=5) of DatabaseManager.log_entry
EntryCooldown == 5

\* Config.FACE_RECOGNITION_TOLERANCE, in hundredths
Tolerance == 60

\* ---------------------------------------------------------------- bounds

\* the clock runs from 0 to MaxTime minutes
MaxTime == 6

\* rows the attendance table may hold
MaxSessions == 2

\* faces the localizer returns for one frame
MaxFaces == 2

\* the counters of `hist` stop counting here
HistCap == 2

\* entries a gallery may hold
MaxGallery == 2

\* employees of the identity directory (Employee rows); the presence logic
\* is per employee
Directory == {1}

\* a label of the gallery that has no Employee row
Stale == 2

\* labels the recognizer may return
Labels == Directory \cup {Stale}

\* recognize_face returned (None, _)
NoId == 0

\* calendar dates date.today() may return
Dates == {0, 1}

\* threads that may execute run_monitoring at the same time (DOMAIN pc);
\* with one slot, start_monitoring_thread can start a thread only once the
\* previous one has ended
Threads == {1}

\* two slots: a thread can be started while the previous one is still in
\* its tick
Workers == {1, 2}

\* face encodings, as points of a line, and distances between them, in
\* hundredths
Points == {0, 58, 60, 61}

\* process runs (a restart constructs a new VisionSystem over the same database)
Runs == {0, 1}

VARIABLES
    now,             \* datetime.utcnow(), in minutes
    today,           \* date.today()
    last_seen,       \* VisionSystem.last_seen: dict in insertion order, <<[id, t], ...>>
    current_status,  \* VisionSystem.current_status: dict id -> "inside" | "exited"
    store,           \* the attendance table: sequence of rows, index = primary key
    is_running,      \* VisionSystem.is_running
    camera,          \* VisionSystem.camera: "none" | "open" | "closed" (object, not opened)
    pc,              \* position of each thread that runs run_monitoring
    faces,           \* face locations of the frame still to process, per thread
    run,             \* index of the process run
    obs,             \* what the last step did (calls made, results, messages printed)
    hist,            \* per run and employee: calls, messages and transitions so far
    recognizer,      \* VisionSystem.recognizer: None or the unpickled gallery
    current_frame,   \* VisionSystem.current_frame: None or an image array
    scope,           \* what a specification follows: "attendance" | "control"
    locals           \* local variables of the calls in progress that a
                     \* specification follows statement by statement

vars == <<now, today, last_seen, current_status, store, is_running, camera,
          pc, faces, run, obs, hist, recognizer, current_frame, scope, locals>>

\* --------------------------------------------------------------- helpers

Min(a, b) == IF a < b THEN a ELSE b

\* employee_id in self.last_seen
Has(ls, e) == \E i \in 1..Len(ls) : ls[i].id = e

\* self.last_seen[employee_id]
Get(ls, e) == ls[CHOOSE i \in 1..Len(ls) : ls[i].id = e].t

\* self.last_seen[employee_id] = current_time (a new key goes last)
Put(ls, e, t) ==
    IF Has(ls, e)
    THEN [i \in 1..Len(ls) |-> IF ls[i].id = e THEN [id |-> e, t |-> t] ELSE ls[i]]
    ELSE Append(ls, [id |-> e, t |-> t])

\* employee_id in self.current_status and self.current_status[employee_id] == s
StatusIs(st, e, s) == e \in DOMAIN st /\ st[e] = s

\* self.current_status[employee_id] = s
SetStatus(st, e, s) == [x \in DOMAIN st \cup {e} |-> IF x = e THEN s ELSE st[x]]

\* ------------------------------------------------------ Attendance store

\* exit_time is NULL
NoTime == -1

\* Attendance(employee_id, entry_time, date, status='inside')
NewRow(e, t, d) ==
    [employee_id |-> e, entry_time |-> t, exit_time |-> NoTime, date |-> d,
     status |-> "inside"]

\* Attendance.query.filter(employee_id == e, date == today, status == 'inside')
ActiveRows(db, e, d) ==
    {i \in 1..Len(db) :
        db[i].employee_id = e /\ db[i].date = d /\ db[i].status = "inside"}

\* .first(): the row with the lowest primary key
FirstRow(S) == CHOOSE i \in S : \A j \in S : i <= j

\* attendance.exit_time = utcnow(); attendance.status = 'exited'
CloseRow(db, i, t) ==
    [db EXCEPT ![i] = [@ EXCEPT !.exit_time = t, !.status = "exited"]]

\* log_entry that forgets to mark the existing row exited
log_entry_keep_open(db, e, t, d, exc) ==
    IF exc THEN [success |-> FALSE, db |-> db]
    ELSE LET act == ActiveRows(db, e, d) IN
         IF act # {} /\ t - db[FirstRow(act)].entry_time < EntryCooldown
         THEN [success |-> FALSE, db |-> db]
         ELSE [success |-> TRUE, db |-> Append(db, NewRow(e, t, d))]

\* log_entry that refuses whenever an inside row exists, whatever its age
log_entry_refuse_active(db, e, t, d, exc) ==
    IF exc THEN [success |-> FALSE, db |-> db]
    ELSE LET act == ActiveRows(db, e, d) IN
         IF act # {}
         THEN [success |-> FALSE, db |-> db]
         ELSE [success |-> TRUE, db |-> Append(db, NewRow(e, t, d))]

\* log_entry that still refuses an inside row that is exactly 5 minutes old
log_entry_refuse_at_cooldown(db, e, t, d, exc) ==
    IF exc THEN [success |-> FALSE, db |-> db]
    ELSE LET act == ActiveRows(db, e, d) IN
         IF act # {} /\ t - db[FirstRow(act)].entry_time <= EntryCooldown
         THEN [success |-> FALSE, db |-> db]
         ELSE LET closed == IF act # {} THEN CloseRow(db, FirstRow(act), t) ELSE db
              IN  [success |-> TRUE, db |-> Append(closed, NewRow(e, t, d))]

\* DatabaseManager.log_entry; exc: the query or the commit raises, and the
\* except branch rolls back
log_entry(db, e, t, d, exc) ==
    IF exc THEN [success |-> FALSE, db |-> db]
    ELSE LET act == ActiveRows(db, e, d) IN
         IF act # {} /\ t - db[FirstRow(act)].entry_time < EntryCooldown
         THEN [success |-> FALSE, db |-> db]
         ELSE LET closed == IF act # {} THEN CloseRow(db, FirstRow(act), t) ELSE db
              IN  [success |-> TRUE, db |-> Append(closed, NewRow(e, t, d))]

\* log_exit that reports success without committing the change
log_exit_uncommitted(db, e, t, d, exc) ==
    IF exc THEN [success |-> FALSE, db |-> db]
    ELSE [success |-> ActiveRows(db, e, d) # {}, db |-> db]

\* DatabaseManager.log_exit
log_exit(db, e, t, d, exc) ==
    IF exc THEN [success |-> FALSE, db |-> db]
    ELSE LET act == ActiveRows(db, e, d) IN
         IF act # {}
         THEN [success |-> TRUE, db |-> CloseRow(db, FirstRow(act), t)]
         ELSE [success |-> FALSE, db |-> db]


\* ------------------------------------------------ Presence state machine

\* What one handle_detection call leaves: the two dicts, the table, whether
\* log_entry was called, whether it succeeded, and whether the
\* "... has entered the office" message is returned.
Outcome(ls, st, db, called, ok, msg) ==
    [last_seen |-> ls, current_status |-> st, db |-> db,
     called |-> called, ok |-> ok, msg |-> msg]

\* the log_entry branches of handle_detection without the test of
\* result['success']
LogAndEnter_unchecked(ls, st, db, e, t, d, exc) ==
    LET r == log_entry(db, e, t, d, exc) IN
    Outcome(Put(ls, e, t), SetStatus(st, e, "inside"), r.db, TRUE, r.success, TRUE)

\* result = DatabaseManager.log_entry(employee_id) and what follows it, in
\* both branches of handle_detection that call it; on failure the call goes
\* on to the last_seen update at the end of handle_detection
LogAndEnter(ls, st, db, e, t, d, exc) ==
    LET r == log_entry(db, e, t, d, exc) IN
    IF r.success
    THEN Outcome(Put(ls, e, t), SetStatus(st, e, "inside"), r.db, TRUE, TRUE, TRUE)
    ELSE Outcome(Put(ls, e, t), st, r.db, TRUE, FALSE, FALSE)

\* handle_detection that returns the entered message from the debounce branch
handle_detection_announce(ls, st, db, e, t, d, exc) ==
    IF ~Has(ls, e) THEN LogAndEnter(ls, st, db, e, t, d, exc)
    ELSE IF t - Get(ls, e) < Cooldown
    THEN Outcome(Put(ls, e, t), st, db, FALSE, FALSE, TRUE)
    ELSE IF StatusIs(st, e, "exited")
    THEN LogAndEnter(ls, st, db, e, t, d, exc)
    ELSE Outcome(Put(ls, e, t), st, db, FALSE, FALSE, FALSE)

\* handle_detection without the re-entry branch
handle_detection_no_reentry(ls, st, db, e, t, d, exc) ==
    IF ~Has(ls, e) THEN LogAndEnter(ls, st, db, e, t, d, exc)
    ELSE Outcome(Put(ls, e, t), st, db, FALSE, FALSE, FALSE)

\* handle_detection whose re-entry branch does not test the status
handle_detection_any_status(ls, st, db, e, t, d, exc) ==
    IF ~Has(ls, e) THEN LogAndEnter(ls, st, db, e, t, d, exc)
    ELSE IF t - Get(ls, e) < Cooldown
    THEN Outcome(Put(ls, e, t), st, db, FALSE, FALSE, FALSE)
    ELSE LogAndEnter(ls, st, db, e, t, d, exc)

\* handle_detection without the cooldown test on time_diff
handle_detection_no_debounce(ls, st, db, e, t, d, exc) ==
    IF ~Has(ls, e) THEN LogAndEnter(ls, st, db, e, t, d, exc)
    ELSE IF StatusIs(st, e, "exited")
    THEN LogAndEnter(ls, st, db, e, t, d, exc)
    ELSE Outcome(Put(ls, e, t), st, db, FALSE, FALSE, FALSE)

\* VisionSystem.handle_detection(employee_id, employee_name) at time t on date d
handle_detection(ls, st, db, e, t, d, exc) ==
    IF Has(ls, e)
    THEN IF t - Get(ls, e) < Cooldown
         THEN Outcome(Put(ls, e, t), st, db, FALSE, FALSE, FALSE)
         ELSE IF StatusIs(st, e, "exited")
              THEN LogAndEnter(ls, st, db, e, t, d, exc)
              ELSE Outcome(Put(ls, e, t), st, db, FALSE, FALSE, FALSE)
    ELSE LogAndEnter(ls, st, db, e, t, d, exc)

\* the exit test with >= in place of >
Overdue_ge(t, last) == t - last >= Cooldown

\* the exit test of check_exits: time_diff > exit_threshold
Overdue(t, last) == t - last > Cooldown

\* What one check_exits call leaves: current_status, the table, the ids
\* log_exit was called for, the ids it succeeded for, and whether the call
\* ended in an exception.
Swept(st, db, tried, closed, raised) ==
    [current_status |-> st, db |-> db, tried |-> tried, closed |-> closed,
     raised |-> raised]

\* check_exits that sets exited without looking at what log_exit returned
RECURSIVE check_exits_unchecked(_, _, _, _, _, _, _)
check_exits_unchecked(items, st, db, t, d, exc, bad) ==
    IF items = <<>> THEN Swept(st, db, {}, {}, FALSE)
    ELSE LET e == Head(items).id
             last == Head(items).t
         IN
         IF StatusIs(st, e, "inside") /\ Overdue(t, last)
         THEN LET r == log_exit(db, e, t, d, e \in exc)
                  closed == IF r.success THEN {e} ELSE {}
              IN
              IF e \in bad /\ r.success
              THEN Swept(SetStatus(st, e, "exited"), r.db, {e}, {e}, TRUE)
              ELSE LET rest == check_exits_unchecked(Tail(items),
                                   SetStatus(st, e, "exited"), r.db, t, d, exc, bad)
                   IN  Swept(rest.current_status, rest.db, rest.tried \cup {e},
                             rest.closed \cup closed, rest.raised)
         ELSE check_exits_unchecked(Tail(items), st, db, t, d, exc, bad)

\* The loop of VisionSystem.check_exits over list(self.last_seen.items()).
\* exc: ids whose log_exit raises inside its try;
\* bad: ids whose get_employee_by_id raises.
RECURSIVE check_exits(_, _, _, _, _, _, _)
check_exits(items, st, db, t, d, exc, bad) ==
    IF items = <<>> THEN Swept(st, db, {}, {}, FALSE)
    ELSE LET e == Head(items).id
             last == Head(items).t
         IN
         IF StatusIs(st, e, "inside") /\ Overdue(t, last)
         THEN LET r == log_exit(db, e, t, d, e \in exc) IN
              IF r.success
              THEN IF e \in bad
                   THEN Swept(SetStatus(st, e, "exited"), r.db, {e}, {e}, TRUE)
                   ELSE LET rest == check_exits(Tail(items), SetStatus(st, e, "exited"),
                                                r.db, t, d, exc, bad)
                        IN  Swept(rest.current_status, rest.db, rest.tried \cup {e},
                                  rest.closed \cup {e}, rest.raised)
              ELSE LET rest == check_exits(Tail(items), st, r.db, t, d, exc, bad)
                   IN  Swept(rest.current_status, rest.db, rest.tried \cup {e},
                             rest.closed, rest.raised)
         ELSE check_exits(Tail(items), st, db, t, d, exc, bad)


\* ------------------------------------------------------ Identity matcher

\* the None of (None, None) and of (None, best_distance)
NoDist == -1

\* what recognize_face returns: (employee_id, confidence)
Match(id, dist) == [id |-> id, dist |-> dist]

\* face_recognition.face_distance for one gallery encoding
Distance(a, b) == IF a < b THEN b - a ELSE a - b

\* self.recognizer is None
NoRecognizer == [kind |-> "none", encodings |-> <<>>, labels |-> <<>>]

\* the dict of train_model, {'encodings': ..., 'labels': ...}, for the
\* gallery g of (label, encoding) pairs
Recognizer(g) ==
    [kind |-> "dict",
     encodings |-> [i \in 1..Len(g) |-> g[i].enc],
     labels |-> [i \in 1..Len(g) |-> g[i].label]]

\* a gallery with an encoding of the employee and one of the stale label
Gallery == <<[label |-> 1, enc |-> 0], [label |-> Stale, enc |-> 61]>>

\* np.argmin: one pass over the array, the index kept changes only for a
\* smaller element
RECURSIVE argmin_from(_, _, _)
argmin_from(d, i, best) ==
    IF i > Len(d) THEN best
    ELSE argmin_from(d, i + 1, IF d[i] < d[best] THEN i ELSE best)

\* np.argmin that keeps the last of equal minima
RECURSIVE argmin_last_from(_, _, _)
argmin_last_from(d, i, best) ==
    IF i > Len(d) THEN best
    ELSE argmin_last_from(d, i + 1, IF d[i] <= d[best] THEN i ELSE best)

argmin_last(d) == argmin_last_from(d, 2, 1)

\* np.argmin(distances)
argmin(d) == argmin_from(d, 2, 1)

\* recognize_face from face_distance on: known_encodings and known_labels
\* against the encoding q of the face
best_match(known_encodings, known_labels, q) ==
    IF Len(known_encodings) = 0 THEN Match(NoId, NoDist)
    ELSE LET distances == [i \in 1..Len(known_encodings) |->
                              Distance(known_encodings[i], q)]
             best_idx == argmin(distances)
             best_distance == distances[best_idx]
         IN  IF best_distance <= Tolerance
             THEN IF best_idx \in DOMAIN known_labels
                  THEN Match(known_labels[best_idx], best_distance)
                  ELSE Match(NoId, NoDist)
             ELSE Match(NoId, best_distance)

\* recognize_face that answers a missing gallery with a confidence of 0
recognize_face_zero_confidence(rec, q, encoded) ==
    IF rec.kind = "none" \/ Len(rec.encodings) = 0 THEN Match(NoId, 0)
    ELSE IF ~encoded THEN Match(NoId, NoDist)
    ELSE best_match(rec.encodings, rec.labels, q)

\* VisionSystem.recognize_face; encoded: face_encodings returned an encoding
\* (it returned none, or raised, otherwise)
recognize_face(rec, q, encoded) ==
    IF rec.kind = "none" THEN Match(NoId, NoDist)
    ELSE IF ~encoded THEN Match(NoId, NoDist)
    ELSE best_match(rec.encodings, rec.labels, q)

\* ------------------------------------------------------- Frame publisher

\* self.current_frame is None
NoFrame == [img |-> 0, array |-> "none"]

\* ndarray.copy(): a new array, named by the place that allocates it, with
\* the same image
Copy(a, place) == [img |-> a.img, array |-> place]

\* the frame of camera.read() with the annotations of the tick: an image
\* other than the published one
Captured(cf) == [img |-> IF cf.img = 1 THEN 2 ELSE 1, array |-> "frame"]

\* with self.lock: self.current_frame = frame.copy()
Published(frame) == Copy(frame, "current_frame")

\* get_current_frame that returns the stored array itself
Snapshot_no_copy(cf) == cf

\* get_current_frame, the body of its with self.lock
Snapshot(cf) == IF cf # NoFrame THEN Copy(cf, "snapshot") ELSE NoFrame

\* ----------------------------------------------------------- observation

\* The record of a step. op: the operation; id: the employee it is about;
\* was, gap: the employee's status ("none": no entry) and time_diff
\* (NoTime: not in last_seen) when handle_detection was called;
\* called, ok: the log_entry call of handle_detection and its result;
\* msg: the entered message; exc: a store call of the step raised;
\* tried, closed: the ids check_exits called log_exit for and those it closed;
\* ret: the value a control call returned; dev, by: the operation on the
\* capture device and the thread that performed it; device: what
\* cv2.VideoCapture did in start_camera; q, dist: the encoding
\* of the face and the distance recognize_face returned (id: its label);
\* snap: the frame get_current_frame returned; after: the step that
\* preceded a handle_detection call (the face before it in the frame, when
\* that is a handle_detection call).
Obs(op, id, was, gap, called, ok, msg, exc, tried, closed) ==
    [op |-> op, id |-> id, was |-> was, gap |-> gap, called |-> called,
     ok |-> ok, msg |-> msg, exc |-> exc, tried |-> tried, closed |-> closed,
     ret |-> FALSE, dev |-> "none", by |-> "none", device |-> "none",
     q |-> NoDist,
     dist |-> NoDist, snap |-> NoFrame, after |-> "none"]

\* a step that only moves the control, and one that ends a thread
Plain(op) == Obs(op, NoId, "none", NoTime, FALSE, FALSE, FALSE, FALSE, {}, {})

NoObs == Plain("none")

\* A specification of scope "attendance" follows presence tracking and the
\* attendance table only: in it the published frame is left out and the
\* steps that neither call handle_detection nor check_exits nor end a thread
\* are not told apart. A specification of scope "control" follows all of it.
\* The scope is fixed by the initial state.
Followed == scope = "control"

\* the record of a step that only a specification of scope "control" keeps
Note(o) == IF Followed THEN o ELSE NoObs

\* a step that operates on the capture device, or answers a control call
Device(op, dev, by, ret) ==
    Note([Plain(op) EXCEPT !.dev = dev, !.by = by, !.ret = ret])

\* a step that ends a thread after an operation on the capture device
Ended(op, dev, by) ==
    IF Followed THEN [Plain(op) EXCEPT !.dev = dev, !.by = by] ELSE Plain(op)

\* status and time_diff as handle_detection finds them
StatusOf(st, e) == IF e \in DOMAIN st THEN st[e] ELSE "none"
GapOf(ls, e, t) == IF Has(ls, e) THEN t - Get(ls, e) ELSE NoTime

\* counters of a new process run
NoHist ==
    [match   |-> [e \in Directory |-> 0],
     entered |-> [e \in Directory |-> 0],
     opened  |-> [e \in Directory |-> 0],
     closed  |-> [e \in Directory |-> 0],
     first   |-> [e \in Directory |-> NoTime]]

Count(n) == Min(n + 1, HistCap)

\* hist after a handle_detection call for e at time t with outcome o (an
\* id outside the directory has no counters)
Matched(h, e, t, o) ==
    IF e \notin Directory THEN h ELSE
    [match   |-> [h.match EXCEPT ![e] = Count(@)],
     entered |-> IF o.msg THEN [h.entered EXCEPT ![e] = Count(@)] ELSE h.entered,
     opened  |-> IF o.ok THEN [h.opened EXCEPT ![e] = Count(@)] ELSE h.opened,
     closed  |-> h.closed,
     first   |-> IF h.first[e] = NoTime THEN [h.first EXCEPT ![e] = t] ELSE h.first]

\* hist after a check_exits call that closed the sessions of the ids in S
Closed(h, S) ==
    [h EXCEPT !.closed = [e \in Directory |-> IF e \in S THEN Count(@[e]) ELSE @[e]]]

\* ------------------------------------------------------------------ Init

\* what VisionSystem.__init__ sets, over a new, empty database
\* (db.create_all); no call is in progress
Constructed ==
    /\ now = 0
    /\ today = 0
    /\ last_seen = <<>>
    /\ current_status = <<>>
    /\ store = <<>>
    /\ is_running = FALSE
    /\ camera = "none"
    /\ current_frame = NoFrame
    /\ run = 0
    /\ obs = NoObs
    /\ hist = NoHist
    /\ locals = <<>>

\* app.py at import: VisionSystem(), load_model succeeded and set_recognizer
\* stored the gallery
Init ==
    /\ Constructed
    /\ scope = "attendance"
    /\ recognizer = Recognizer(Gallery)
    /\ pc = [t \in Threads |-> "none"]
    /\ faces = [t \in Threads |-> 0]

\* ----------------------------------------------------------- environment

\* a minute passes
Advance ==
    /\ now < MaxTime
    /\ now' = now + 1
    /\ obs' = NoObs
    /\ UNCHANGED <<today, last_seen, current_status, store, is_running, camera,
                   pc, faces, run, hist, recognizer, current_frame, scope, locals>>

\* midnight: date.today() changes
Midnight ==
    /\ today + 1 \in Dates
    /\ today' = today + 1
    /\ obs' = NoObs
    /\ UNCHANGED <<now, last_seen, current_status, store, is_running, camera,
                   pc, faces, run, hist, recognizer, current_frame, scope, locals>>

\* The process ends and app.py runs again: a new VisionSystem, no thread,
\* the database file and the model file kept.
Restart ==
    /\ run + 1 \in Runs
    /\ run' = run + 1
    /\ last_seen' = <<>>
    /\ current_status' = <<>>
    /\ is_running' = FALSE
    /\ camera' = "none"
    /\ current_frame' = NoFrame
    /\ pc' = [t \in DOMAIN pc |-> "none"]
    /\ faces' = [t \in DOMAIN pc |-> 0]
    /\ obs' = NoObs
    /\ hist' = NoHist
    /\ UNCHANGED <<now, today, store, recognizer, scope, locals>>

\* ------------------------------------------------------- control surface

\* a thread slot is free when no thread, or a terminated one, holds it
Free(t) == pc[t] \in {"none", "dead"}

\* start_camera that sets is_running before it tests isOpened()
start_camera_flag_first(running, cam, device) ==
    IF device = "raise" THEN [ret |-> FALSE, is_running |-> running, camera |-> cam]
    ELSE IF device = "closed"
    THEN [ret |-> FALSE, is_running |-> TRUE, camera |-> "closed"]
    ELSE [ret |-> TRUE, is_running |-> TRUE, camera |-> "open"]

\* VisionSystem.start_camera. device: "open": isOpened() is true; "closed":
\* it is false; "raise": cv2.VideoCapture raises. What the call returns and
\* leaves in self.is_running and self.camera.
start_camera(running, cam, device) ==
    IF device = "raise" THEN [ret |-> FALSE, is_running |-> running, camera |-> cam]
    ELSE IF device = "closed"
    THEN [ret |-> FALSE, is_running |-> running, camera |-> "closed"]
    ELSE [ret |-> TRUE, is_running |-> TRUE, camera |-> "open"]

\* start_monitoring_thread past its test of is_running: start_camera, and
\* threading.Thread(target=self.run_monitoring).start() in the lowest free
\* slot when it returned True
Started(device) ==
    LET r == start_camera(is_running, camera, device) IN
    /\ camera' = r.camera
    /\ is_running' = r.is_running
    /\ IF r.ret
       THEN \E t \in DOMAIN pc :
              /\ Free(t)
              /\ \A u \in DOMAIN pc : Free(u) => t <= u
              /\ pc' = [pc EXCEPT ![t] = "loop"]
              /\ faces' = [faces EXCEPT ![t] = 0]
       ELSE UNCHANGED <<pc, faces>>
    /\ obs' = Note([Plain("start_monitoring_thread") EXCEPT
                       !.dev = "open", !.by = "caller", !.ret = r.ret,
                       !.device = device])
    /\ UNCHANGED <<now, today, last_seen, current_status, store, run, hist,
                   recognizer, current_frame, scope, locals>>

\* start_monitoring_thread without its test of is_running
start_monitoring_thread_unguarded == \E device \in {"open", "closed", "raise"} : Started(device)

\* VisionSystem.start_monitoring_thread, called from the request thread of
\* /api/start_monitoring
start_monitoring_thread ==
    IF is_running
    THEN /\ obs' = Device("start_monitoring_thread", "none", "none", FALSE)
         /\ UNCHANGED <<now, today, last_seen, current_status, store, is_running,
                        camera, pc, faces, run, hist, recognizer, current_frame, scope, locals>>
    ELSE \E device \in {"open", "closed", "raise"} : Started(device)

\* stop_camera that also forgets who is present
stop_camera_reset ==
    /\ is_running' = FALSE
    /\ camera' = "none"
    /\ last_seen' = <<>>
    /\ current_status' = <<>>
    /\ obs' = IF camera # "none"
              THEN Device("stop_camera", "release", "caller", FALSE)
              ELSE Note(Plain("stop_camera"))
    /\ UNCHANGED <<now, today, store, pc, faces, run, hist, recognizer,
                   current_frame, scope, locals>>

\* stop_camera that releases the device and leaves the flag
stop_camera_release_only ==
    /\ camera' = "none"
    /\ obs' = IF camera # "none"
              THEN Device("stop_camera", "release", "caller", FALSE)
              ELSE Note(Plain("stop_camera"))
    /\ UNCHANGED <<now, today, last_seen, current_status, store, is_running, pc,
                   faces, run, hist, recognizer, current_frame, scope, locals>>

\* VisionSystem.stop_camera, called from the request thread of
\* /api/stop_monitoring
stop_camera ==
    /\ is_running' = FALSE
    /\ camera' = "none"
    /\ obs' = IF camera # "none"
              THEN Device("stop_camera", "release", "caller", FALSE)
              ELSE Note(Plain("stop_camera"))
    /\ UNCHANGED <<now, today, last_seen, current_status, store, pc, faces, run,
                   hist, recognizer, current_frame, scope, locals>>

\* VisionSystem.set_recognizer(face_trainer.get_recognizer()) of
\* /api/train_model, after load_model unpickled the gallery g
set_recognizer(g) ==
    /\ recognizer' = Recognizer(g)
    /\ obs' = Note(Plain("set_recognizer"))
    /\ UNCHANGED <<now, today, last_seen, current_status, store, is_running,
                   camera, pc, faces, run, hist, current_frame, scope, locals>>

\* VisionSystem.get_current_frame, called by generate_frames while is_running
get_current_frame ==
    /\ is_running
    /\ obs' = Note([Plain("get_current_frame") EXCEPT
                        !.snap = Snapshot(current_frame)])
    /\ UNCHANGED <<now, today, last_seen, current_status, store, is_running,
                   camera, pc, faces, run, hist, recognizer, current_frame, scope, locals>>

\* ------------------------------------------------------- monitoring loop

\* run_monitoring: while self.is_running, and the first test of
\* process_frame: if not self.camera or not self.is_running: return None
run_monitoring(t) ==
    /\ pc[t] = "loop"
    /\ pc' = [pc EXCEPT ![t] = IF ~is_running THEN "none"
                                ELSE IF camera = "none" THEN "sweep"
                                ELSE "read"]
    /\ obs' = NoObs
    /\ UNCHANGED <<now, today, last_seen, current_status, store, is_running,
                   camera, faces, run, hist, recognizer, current_frame, scope, locals>>

\* self.current_frame when process_frame has `left` faces of the frame to
\* handle, ret being what read() returned: the frame is stored after the
\* last face
StoredFrame(cf, ret, left) ==
    IF ret /\ left = 0 /\ Followed THEN Published(Captured(cf)) ELSE cf

\* process_frame: self.camera.read() and detect_faces.
\* self.camera is None: AttributeError, nobody catches it, the thread ends.
\* ret: the device delivered a frame; found: face_locations raised (-1) or
\* returned that many locations. With no location the frame is published
\* at once.
process_frame_read(t) ==
    /\ pc[t] = "read"
    /\ IF camera = "none"
       THEN /\ pc' = [pc EXCEPT ![t] = "dead"]
            /\ faces' = faces
            /\ current_frame' = current_frame
            /\ obs' = Plain("read_raised")
       ELSE \E ret \in (IF camera = "open" THEN BOOLEAN ELSE {FALSE}) :
              IF ~ret
              THEN /\ pc' = [pc EXCEPT ![t] = "sweep"]
                   /\ faces' = faces
                   /\ current_frame' = StoredFrame(current_frame, FALSE, 0)
                   /\ obs' = Device("read_failed", "read", "worker", FALSE)
              ELSE \E found \in -1..MaxFaces :
                     /\ pc' = [pc EXCEPT ![t] = IF found = -1 THEN "dead"
                                                 ELSE IF found = 0 THEN "sweep"
                                                 ELSE "faces"]
                     /\ faces' = [faces EXCEPT ![t] = IF found = -1 THEN 0 ELSE found]
                     /\ current_frame' = IF found = -1 THEN current_frame
                                         ELSE StoredFrame(current_frame, TRUE, found)
                     /\ obs' = IF found = -1
                               THEN Ended("locate_raised", "read", "worker")
                               ELSE Device("read", "read", "worker", TRUE)
    /\ UNCHANGED <<now, today, last_seen, current_status, store, is_running,
                   camera, run, hist, recognizer, scope, locals>>

\* what is left of the frame after one face; after the last one the frame
\* is published
NextFace(t) ==
    /\ faces' = [faces EXCEPT ![t] = @ - 1]
    /\ pc' = [pc EXCEPT ![t] = IF faces[t] = 1 THEN "sweep" ELSE "faces"]
    /\ current_frame' = StoredFrame(current_frame, TRUE, faces[t] - 1)

\* a face that is not an employee: drawn as Unknown
Unknown(op, q, m) ==
    Note([Plain(op) EXCEPT !.id = m.id, !.q = q, !.dist = m.dist])

\* get_employee_by_id that finds a row for every id
get_employee_by_id_any(id) == "found"

\* DatabaseManager.get_employee_by_id when the query raises nothing:
\* Employee.query.get returns the row of the id, or None
get_employee_by_id(id) == IF id \in Directory THEN "found" ELSE "none"

\* process_frame: one iteration of the loop over face_locations.
\* q, encoded: the encoding of the face; m: what recognize_face returns;
\* row: get_employee_by_id returns a row ("found"), None ("none"), or
\* raises, nobody catches it and the thread ends; exc: log_entry raises
\* inside its try.
process_frame_face(t) ==
    /\ pc[t] = "faces"
    /\ faces[t] > 0
    /\ \E q \in Points, encoded \in BOOLEAN :
         LET m == recognize_face(recognizer, q, encoded)
             r == m.id
         IN
         IF r = NoId
         THEN /\ NextFace(t)
              /\ obs' = Unknown("no_match", q, m)
              /\ UNCHANGED <<last_seen, current_status, store, hist>>
         ELSE \E row \in {get_employee_by_id(r), "raise"} :
                IF row = "raise"
                THEN /\ pc' = [pc EXCEPT ![t] = "dead"]
                     /\ faces' = [faces EXCEPT ![t] = 0]
                     /\ current_frame' = current_frame
                     /\ obs' = Plain("resolve_raised")
                     /\ UNCHANGED <<last_seen, current_status, store, hist>>
                ELSE IF row = "none"
                THEN /\ NextFace(t)
                     /\ obs' = Unknown("no_employee", q, m)
                     /\ UNCHANGED <<last_seen, current_status, store, hist>>
                ELSE \E exc \in BOOLEAN :
                       LET o == handle_detection(last_seen, current_status, store,
                                                 r, now, today, exc)
                       IN  /\ Len(o.db) <= MaxSessions
                           /\ last_seen' = o.last_seen
                           /\ current_status' = o.current_status
                           /\ store' = o.db
                           /\ hist' = Matched(hist, r, now, o)
                           /\ obs' = [Obs("handle_detection", r,
                                          StatusOf(current_status, r),
                                          GapOf(last_seen, r, now),
                                          o.called, o.ok, o.msg,
                                          o.called /\ exc, {}, {})
                                        EXCEPT !.dist = m.dist, !.q = q,
                                               !.after = Note(obs).op]
                           /\ NextFace(t)
    /\ UNCHANGED <<now, today, is_running, camera, run, recognizer, scope, locals>>

\* run_monitoring: self.check_exits(), then time.sleep
check_exits_step(t) ==
    /\ pc[t] = "sweep"
    /\ \E exc \in SUBSET Directory, bad \in SUBSET Directory :
         LET o == check_exits(last_seen, current_status, store, now, today,
                              exc, bad)
         IN  /\ exc \subseteq o.tried
             /\ bad \subseteq o.closed
             /\ current_status' = o.current_status
             /\ store' = o.db
             /\ hist' = Closed(hist, o.closed)
             /\ pc' = [pc EXCEPT ![t] = IF o.raised THEN "dead" ELSE "loop"]
             /\ obs' = Obs(IF o.raised THEN "resolve_raised" ELSE "check_exits",
                           NoId, "none", NoTime, FALSE, FALSE, FALSE, exc # {},
                           o.tried, o.closed)
    /\ UNCHANGED <<now, today, last_seen, is_running, camera, faces, run,
                   recognizer, current_frame, scope, locals>>

Next ==
    \/ Advance
    \/ Midnight
    \/ Restart
    \/ start_monitoring_thread
    \/ stop_camera
    \/ \E t \in DOMAIN pc : run_monitoring(t)
    \/ \E t \in DOMAIN pc : process_frame_read(t)
    \/ \E t \in DOMAIN pc : process_frame_face(t)
    \/ \E t \in DOMAIN pc : check_exits_step(t)

Spec == Init /\ [][Next]_vars

\* ------------------------------------------------- control specification

\* galleries load_model unpickles for set_recognizer after train_model
\* succeeded: train_model writes no gallery without an encoding
Reloads == {Gallery}

\* app.py at import, the model file missing, holding no encoding, or
\* loaded; two thread slots
InitControl ==
    /\ Constructed
    /\ scope = "control"
    /\ recognizer \in {NoRecognizer, Recognizer(<<>>), Recognizer(Gallery)}
    /\ pc = [t \in Workers |-> "none"]
    /\ faces = [t \in Workers |-> 0]

\* one process run within one minute, with the web threads that start and
\* stop monitoring, reload the gallery and stream frames
NextControl ==
    \/ start_monitoring_thread
    \/ stop_camera
    \/ \E g \in Reloads : set_recognizer(g)
    \/ get_current_frame
    \/ \E t \in DOMAIN pc : run_monitoring(t)
    \/ \E t \in DOMAIN pc : process_frame_read(t)
    \/ \E t \in DOMAIN pc : process_frame_face(t)
    \/ \E t \in DOMAIN pc : check_exits_step(t)

SpecControl == InitControl /\ [][NextControl]_vars

\* ---------------------------------------------------- tick specification

\* app.py at import with the gallery loaded; one thread slot
InitTick ==
    /\ Constructed
    /\ scope = "control"
    /\ recognizer = Recognizer(Gallery)
    /\ pc = [t \in Threads |-> "none"]
    /\ faces = [t \in Threads |-> 0]

\* one process run on one date, every step of a tick told apart
NextTick ==
    \/ Advance
    \/ start_monitoring_thread
    \/ stop_camera
    \/ \E t \in DOMAIN pc : run_monitoring(t)
    \/ \E t \in DOMAIN pc : process_frame_read(t)
    \/ \E t \in DOMAIN pc : process_frame_face(t)
    \/ \E t \in DOMAIN pc : check_exits_step(t)

SpecTick == InitTick /\ [][NextTick]_vars

\* ------------------------------------------------- matcher specification

\* galleries of at most MaxGallery (label, encoding) pairs
Galleries ==
    UNION {[1..n -> [label : Labels, enc : Points]] : n \in 0..MaxGallery}

\* any gallery is loaded
InitMatch ==
    /\ Constructed
    /\ scope = "control"
    /\ recognizer \in {Recognizer(g) : g \in Galleries}
    /\ pc = [t \in Threads |-> "none"]
    /\ faces = [t \in Threads |-> 0]

\* recognize_face for a face whose encoding is q (encoded), or that has
\* none
recognize ==
    /\ \E q \in Points, encoded \in BOOLEAN :
         LET m == recognize_face(recognizer, q, encoded) IN
         obs' = [Plain("recognize_face") EXCEPT
                    !.id = m.id, !.dist = m.dist,
                    !.q = IF encoded THEN q ELSE NoDist]
    /\ UNCHANGED <<now, today, last_seen, current_status, store, is_running,
                   camera, pc, faces, run, hist, recognizer, current_frame, scope, locals>>

NextMatch == recognize

SpecMatch == InitMatch /\ [][NextMatch]_vars


\* -------------------------------------------------- reload specification

\* the local variables v of the call thread t is in, and its return
Enter(l, t, v) == [u \in DOMAIN l \cup {t} |-> IF u = t THEN v ELSE l[u]]
Leave(l, t) == [u \in DOMAIN l \ {t} |-> l[u]]

\* the gallery after a training that met the folders in the other order
\* (os.listdir), and after one that met the employee's folder only
Regrouped == <<[label |-> Stale, enc |-> 61], [label |-> 1, enc |-> 0]>>
Shrunk == <<[label |-> 1, enc |-> 0]>>

\* the galleries train_model writes one after the other
Versions == {Gallery, Regrouped, Shrunk}

\* one of the galleries is loaded
InitReload ==
    /\ Constructed
    /\ scope = "control"
    /\ recognizer \in {Recognizer(g) : g \in Versions}
    /\ pc = [t \in Threads |-> "none"]
    /\ faces = [t \in Threads |-> 0]

\* recognize_face down to face_encoding = face_encs[0]: self.recognizer is
\* not None and the face has the encoding q
recognize_face_encode(t) ==
    /\ pc[t] = "none"
    /\ recognizer.kind # "none"
    /\ \E q \in Points : locals' = Enter(locals, t, [face_encoding |-> q])
    /\ pc' = [pc EXCEPT ![t] = "known_encodings"]
    /\ obs' = Plain("face_encodings")
    /\ UNCHANGED <<now, today, last_seen, current_status, store, is_running,
                   camera, faces, run, hist, recognizer, current_frame, scope>>

\* known_encodings = self.recognizer.get('encodings')
recognize_face_encodings(t) ==
    /\ pc[t] = "known_encodings"
    /\ locals' = Enter(locals, t, [face_encoding |-> locals[t].face_encoding,
                                   known_encodings |-> recognizer.encodings])
    /\ pc' = [pc EXCEPT ![t] = "known_labels"]
    /\ obs' = Plain("known_encodings")
    /\ UNCHANGED <<now, today, last_seen, current_status, store, is_running,
                   camera, faces, run, hist, recognizer, current_frame, scope>>

\* known_labels = self.recognizer.get('labels'), and the rest of
\* recognize_face on the local variables
recognize_face_labels(t) ==
    /\ pc[t] = "known_labels"
    /\ LET m == best_match(locals[t].known_encodings, recognizer.labels,
                           locals[t].face_encoding)
       IN  obs' = [Plain("recognize_face") EXCEPT
                      !.id = m.id, !.dist = m.dist, !.q = locals[t].face_encoding]
    /\ locals' = Leave(locals, t)
    /\ pc' = [pc EXCEPT ![t] = "none"]
    /\ UNCHANGED <<now, today, last_seen, current_status, store, is_running,
                   camera, faces, run, hist, recognizer, current_frame, scope>>

\* recognize_face, statement by statement, in a thread of the loop while
\* the request thread of /api/train_model stores galleries
NextReload ==
    \/ \E g \in Versions : set_recognizer(g)
    \/ \E t \in DOMAIN pc : recognize_face_encode(t)
    \/ \E t \in DOMAIN pc : recognize_face_encodings(t)
    \/ \E t \in DOMAIN pc : recognize_face_labels(t)

SpecReload == InitReload /\ [][NextReload]_vars

\* --------------------------------------------------- store specification

\* existing = Attendance.query.filter(...).first(): the primary key of the
\* row, 0 for None
Existing(db, e, d) ==
    IF ActiveRows(db, e, d) # {} THEN FirstRow(ActiveRows(db, e, d)) ELSE 0

\* an empty database, no monitoring yet; two threads may call the store
InitStore ==
    /\ Constructed
    /\ scope = "control"
    /\ recognizer = Recognizer(Gallery)
    /\ pc = [t \in Workers |-> "none"]
    /\ faces = [t \in Workers |-> 0]

\* what a log_entry call of thread t returns
Returned(t, e, ok, exc) ==
    [Obs("log_entry", e, "none", NoTime, TRUE, ok, FALSE, exc, {}, {})
        EXCEPT !.by = t]

\* log_entry down to the cooldown test: today = date.today(), the query and
\* the refusal of an inside row younger than 5 minutes; exc: the query raises
log_entry_query(t) ==
    /\ pc[t] = "none"
    /\ \E e \in Directory, exc \in BOOLEAN :
         LET existing == Existing(store, e, today) IN
         IF exc \/ (existing # 0 /\ now - store[existing].entry_time < EntryCooldown)
         THEN /\ obs' = Returned(t, e, FALSE, exc)
              /\ UNCHANGED <<pc, locals>>
         ELSE /\ obs' = Plain("query")
              /\ pc' = [pc EXCEPT ![t] = "commit"]
              /\ locals' = Enter(locals, t, [employee_id |-> e, today |-> today,
                                            existing |-> existing])
    /\ UNCHANGED <<now, today, last_seen, current_status, store, is_running,
                   camera, faces, run, hist, recognizer, current_frame, scope>>

\* log_entry from `if existing:` on: the row the query returned is marked
\* exited (an UPDATE by primary key), the new row is added, commit;
\* exc: the commit raises and the except branch rolls back
log_entry_commit(t) ==
    /\ pc[t] = "commit"
    /\ \E exc \in BOOLEAN :
         LET v == locals[t]
             closed == IF v.existing # 0 THEN CloseRow(store, v.existing, now)
                       ELSE store
         IN  /\ store' = IF exc THEN store
                         ELSE Append(closed, NewRow(v.employee_id, now, v.today))
             /\ Len(store') <= MaxSessions
             /\ obs' = Returned(t, v.employee_id, ~exc, exc)
    /\ pc' = [pc EXCEPT ![t] = "none"]
    /\ locals' = Leave(locals, t)
    /\ UNCHANGED <<now, today, last_seen, current_status, is_running, camera,
                   faces, run, hist, recognizer, current_frame, scope>>

\* log_entry calls of two threads, statement by statement, as time passes
NextStore ==
    \/ Advance
    \/ \E t \in DOMAIN pc : log_entry_query(t)
    \/ \E t \in DOMAIN pc : log_entry_commit(t)

SpecStore == InitStore /\ [][NextStore]_vars

\* ------------------------------------------------- absence specification

\* process runs in which monitoring is never stopped, over the dates
NextAbsence ==
    \/ Advance
    \/ Midnight
    \/ start_monitoring_thread
    \/ \E t \in DOMAIN pc : run_monitoring(t)
    \/ \E t \in DOMAIN pc : process_frame_read(t)
    \/ \E t \in DOMAIN pc : process_frame_face(t)
    \/ \E t \in DOMAIN pc : check_exits_step(t)

\* a check_exits call in which no store call raises
CleanSweep(t) == check_exits_step(t) /\ ~obs'.exc /\ obs'.op = "check_exits"

\* a started thread executes its next statement (daemon thread, sleep of
\* 0.03 s between ticks), and the store does not raise in every sweep
Scheduled ==
    \A t \in Threads :
        /\ WF_vars(run_monitoring(t))
        /\ WF_vars(process_frame_read(t))
        /\ WF_vars(process_frame_face(t))
        /\ SF_vars(CleanSweep(t))

SpecAbsence == Init /\ [][NextAbsence]_vars /\ Scheduled

\* ---------------------------------------------------- stop specification

\* a started thread executes its next statement
Running ==
    \A t \in Workers :
        /\ WF_vars(run_monitoring(t))
        /\ WF_vars(process_frame_read(t))
        /\ WF_vars(process_frame_face(t))
        /\ WF_vars(check_exits_step(t))

\* the control specification with its threads scheduled
SpecStop == InitControl /\ [][NextControl]_vars /\ Running

\* ---------------------------------------------------------------- claims

\* a handle_detection call for employee obs'.id is the step
Handles == obs'.op = "handle_detection"

\* the step opened a session for obs'.id: log_entry succeeded and added the
\* row, status is inside, last_seen is now and the entered message is out
OpensSession ==
    /\ obs'.called /\ obs'.ok /\ obs'.msg
    /\ StatusIs(current_status', obs'.id, "inside")
    /\ Has(last_seen', obs'.id) /\ Get(last_seen', obs'.id) = now
    /\ Len(store') = Len(store) + 1
    /\ store'[Len(store')] = NewRow(obs'.id, now, today)

\* the table holds an inside row of e for date d that is younger than the
\* cooldown of log_entry at time t
RecentSession(db, e, d, t) ==
    \E i \in ActiveRows(db, e, d) : t - db[i].entry_time < EntryCooldown

\* C1: whatever log_entry and log_exit calls the monitoring loop has made,
\* the attendance table never holds two rows with status inside for the same
\* employee and the same date.
C1_OneInsideSession ==
    \A e \in Directory, d \in Dates : Cardinality(ActiveRows(store, e, d)) <= 1

\* C1 witness: a session of an employee was closed and a later one of the same
\* date is open.
C1_Reopened ==
    \E i, j \in 1..Len(store) :
        /\ i < j
        /\ store[i].employee_id = store[j].employee_id
        /\ store[i].date = store[j].date
        /\ store[i].status = "exited"
        /\ store[j].status = "inside"

\* C2 (as claimed): a handle_detection call whose log_entry fails leaves
\* last_seen and current_status as they were, and a match of an employee
\* whose first log_entry failed (in last_seen, no status) calls log_entry again.
C2_FailedOpenKeepsPresence ==
    [][/\ (Handles /\ obs'.called /\ ~obs'.ok)
            => (last_seen' = last_seen /\ current_status' = current_status)
       /\ (Handles /\ Has(last_seen, obs'.id) /\ obs'.id \notin DOMAIN current_status)
            => obs'.called]_vars

\* C3 (as claimed): a handle_detection call for an employee whose status is
\* exited opens a session whatever now - last_seen is (the store raising
\* nothing in the call).
C3_ExitedMatchReenters ==
    [][(Handles /\ StatusIs(current_status, obs'.id, "exited") /\ ~obs'.exc)
            => OpensSession]_vars

C5_Debounce ==
    \A e \in Directory :
        (/\ hist.first[e] # NoTime
         /\ now - hist.first[e] < Cooldown
         /\ hist.opened[e] >= 1)
            => (hist.entered[e] = 1 /\ hist.opened[e] = 1)

\* C5 witness: an employee was matched again, at a later time within the
\* cooldown of its first match, and one entered message is out.
C5_MatchedAgain ==
    \E e \in Directory :
        /\ hist.first[e] # NoTime
        /\ now - hist.first[e] < Cooldown
        /\ hist.match[e] >= 2
        /\ hist.entered[e] = 1
        /\ obs.op = "handle_detection" /\ obs.id = e /\ obs.gap > 0

\* C6: the second match of an employee in a run, when the sweep has marked
\* the employee exited since the first one and the store raises nothing,
\* emits the second entered message; one entered message and one close
\* precede it and no other close has happened.
C6_Reentry ==
    [][(/\ Handles
        /\ hist.match[obs'.id] = 1
        /\ StatusIs(current_status, obs'.id, "exited")
        /\ ~obs'.exc)
            => (/\ hist.entered[obs'.id] = 1
                /\ hist.closed[obs'.id] = 1
                /\ obs'.msg
                /\ hist'.entered[obs'.id] = 2
                /\ hist'.closed[obs'.id] = 1)]_vars

\* C6 witness: two matches, two entered messages, one close.
C6_Reentered ==
    \E e \in Directory :
        /\ hist.match[e] = 2
        /\ hist.entered[e] = 2
        /\ hist.closed[e] = 1
        /\ obs.op = "handle_detection" /\ obs.id = e /\ obs.was = "exited"

\* C7: a handle_detection call for an employee whose status is inside sets
\* last_seen of the employee to now and changes nothing else: no log_entry
\* call, no message, the table and current_status as they were, whether
\* now - last_seen is below the cooldown or not.
C7_InsideMatchOnlyLastSeen ==
    [][(Handles /\ StatusIs(current_status, obs'.id, "inside"))
            => (/\ ~obs'.called
                /\ ~obs'.msg
                /\ store' = store
                /\ current_status' = current_status
                /\ last_seen' = Put(last_seen, obs'.id, now))]_vars

\* C7 witness: an employee with status inside was matched when its last
\* match was a cooldown or more ago.
C7_InsideMatchedLate ==
    /\ obs.op = "handle_detection"
    /\ obs.was = "inside"
    /\ obs.gap >= Cooldown
    /\ StatusIs(current_status, obs.id, "inside")

\* C8 (as claimed): a check_exits call (the store raising nothing in it)
\* closes the session and sets exited for every employee with status inside
\* and now - last_seen > cooldown, and leaves every other inside employee
\* as it was.
C8_SweepExitsOverdue ==
    [][(obs'.op = "check_exits" /\ ~obs'.exc)
            => \A e \in Directory :
                 (StatusIs(current_status, e, "inside") /\ Has(last_seen, e))
                    => IF now - Get(last_seen, e) > Cooldown
                       THEN /\ StatusIs(current_status', e, "exited")
                            /\ e \in obs'.closed
                       ELSE /\ StatusIs(current_status', e, "inside")
                            /\ e \notin obs'.tried]_vars

\* C9: a status goes from inside to exited only in a check_exits call, for an
\* employee with now - last_seen > cooldown whose log_exit succeeded;
\* no handle_detection call leaves a status exited that was not.
C9_ExitOnlyBySweep ==
    [][\A e \in Directory :
         /\ (StatusIs(current_status, e, "inside") /\ StatusIs(current_status', e, "exited"))
               => (/\ obs'.op \in {"check_exits", "resolve_raised"}
                   /\ e \in obs'.closed
                   /\ now - Get(last_seen, e) > Cooldown)
         /\ (Handles /\ StatusIs(current_status', e, "exited"))
               => StatusIs(current_status, e, "exited")]_vars

\* C9 witness: a sweep has closed a session and the employee is exited.
C9_SweptOut ==
    /\ obs.op = "check_exits"
    /\ \E e \in obs.closed : StatusIs(current_status, e, "exited")

\* C10 (as claimed): a step in which face localization, identity resolution
\* or a store call fails ends no thread of the monitoring loop.
C10_FailureKeepsLoop ==
    [][(obs'.op \in {"locate_raised", "resolve_raised"} \/ obs'.exc)
            => \A t \in Threads : pc[t] # "dead" => pc'[t] # "dead"]_vars

\* C11 (as claimed): the step of a failed frame read and the exit sweep that
\* follows it in the same tick change neither last_seen nor current_status
\* nor the published frame, and the read failure ends no thread.
C11_FailedReadTickKeepsState ==
    [][/\ (obs'.op = "read_failed")
            => (/\ UNCHANGED <<last_seen, current_status, current_frame>>
                /\ \A t \in DOMAIN pc : pc[t] = "read" => pc'[t] = "sweep")
       /\ (obs.op = "read_failed" /\ obs'.op \in {"check_exits", "resolve_raised"})
            => UNCHANGED <<last_seen, current_status, current_frame>>]_vars

\* a start_monitoring_thread call is the step; it found is_running true
StartsWhileRunning == obs'.op = "start_monitoring_thread" /\ is_running

\* threads that execute run_monitoring
Live == {t \in DOMAIN pc : pc[t] \notin {"none", "dead"}}

\* open capture handles: VideoCapture objects that are opened and not
\* released; self.camera holds the only reference to one
OpenHandles == IF camera = "open" THEN 1 ELSE 0

\* C12 (as claimed): a start_monitoring_thread call made while is_running is
\* true returns True.
C12_StartWhileRunningSucceeds ==
    [][StartsWhileRunning => obs'.ret]_vars

\* C13: a start_monitoring_thread call made while is_running is true opens
\* no capture handle and starts no thread: self.camera, the position of
\* every thread and is_running are as before the call, is_running is true
\* and exactly one capture handle is open.
C13_StartWhileRunningNoSecond ==
    [][StartsWhileRunning
         => (/\ obs'.dev = "none"
             /\ UNCHANGED <<camera, pc, faces, is_running>>
             /\ is_running'
             /\ OpenHandles' = 1)]_vars

\* C13 witness: start_monitoring_thread was called while a thread was in its
\* tick; nothing was opened and monitoring runs with one handle.
C13_StartedTwice ==
    /\ obs.op = "start_monitoring_thread"
    /\ obs.dev = "none"
    /\ is_running
    /\ OpenHandles = 1
    /\ \E t \in DOMAIN pc : pc[t] \in {"read", "faces", "sweep"}

\* C14 (as claimed): at most one thread executes run_monitoring, whatever
\* start and stop calls were made.
C14_OneWorker == Cardinality(Live) <= 1

\* C15 (as claimed): a thread that has passed the test at the top of
\* process_frame when stop_camera is called completes its tick: its read
\* does not end it.
C15_InFlightTickCompletes ==
    [][\A t \in DOMAIN pc :
         (pc[t] = "read" /\ ~is_running) => pc'[t] # "dead"]_vars

\* C16 (as claimed): every operation on the capture device (open, read,
\* release) is performed by a thread that executes run_monitoring.
C16_OnlyWorkerTouchesDevice ==
    [][obs'.dev # "none" => obs'.by = "worker"]_vars

\* C17: a start_monitoring_thread call in which the capture device does not
\* open (isOpened() is false, or cv2.VideoCapture raises) returns False,
\* leaves is_running false and starts no thread.
C17_DeviceFailureRefusesStart ==
    [][(obs'.op = "start_monitoring_thread" /\ obs'.device \in {"closed", "raise"})
         => (/\ ~obs'.ret
             /\ ~is_running'
             /\ UNCHANGED <<pc, faces>>)]_vars

\* C17 witness: the device did not open in a start call; monitoring is not
\* running and no thread executes the loop.
C17_StartRefused ==
    /\ obs.op = "start_monitoring_thread"
    /\ obs.device = "closed"
    /\ ~obs.ret
    /\ ~is_running
    /\ Live = {}

\* C18: get_current_frame, whatever the threads of the loop are doing,
\* returns None when no frame is published, and otherwise an array that
\* holds the image of the published frame, an image a tick captured, and
\* that is not the array self.current_frame holds.
C18_SnapshotIsCopy ==
    [][obs'.op = "get_current_frame"
         => IF current_frame = NoFrame
            THEN obs'.snap = NoFrame
            ELSE /\ obs'.snap.img = current_frame.img
                 /\ obs'.snap.img = Captured(NoFrame).img
                      \/ obs'.snap.img = Captured(Captured(NoFrame)).img
                 /\ obs'.snap.array # current_frame.array
                 /\ current_frame' = current_frame]_vars

\* C18 witness: a snapshot of the published frame was returned while a
\* thread was handling the faces of its next frame.
C18_SnapshotDuringTick ==
    /\ obs.op = "get_current_frame"
    /\ obs.snap # NoFrame
    /\ obs.snap.img = current_frame.img
    /\ \E t \in DOMAIN pc : pc[t] = "faces"

\* distance of gallery entry i from the encoding q
DistanceOf(rec, i, q) == Distance(rec.encodings[i], q)

NoGallery == recognizer.kind = "none" \/ Len(recognizer.encodings) = 0

\* a thread handles one face of its frame in the step
HandlesFace ==
    \E t \in DOMAIN pc : pc[t] = "faces" /\ (pc'[t] # pc[t] \/ faces'[t] # faces[t])

\* C20: while self.recognizer is None or a gallery without an encoding,
\* every face gets no label and no distance and the step that handles it
\* changes neither last_seen nor current_status nor the table; last_seen,
\* current_status and the table stay empty until set_recognizer stores a
\* gallery with encodings.
C20_NoGalleryNoMatch ==
    [][/\ (HandlesFace /\ NoGallery)
            => (/\ obs'.op = "no_match"
                /\ obs'.id = NoId
                /\ obs'.dist = NoDist
                /\ UNCHANGED <<last_seen, current_status, store>>)
       /\ NoGallery'
            => (last_seen' = <<>> /\ DOMAIN current_status' = {} /\ store' = <<>>)]_vars

\* C20 witness: with self.recognizer None, monitoring was started and a
\* thread has handled a face of a frame, without a match.
C20_RunsWithoutGallery ==
    /\ recognizer = NoRecognizer
    /\ is_running
    /\ obs.op = "no_match"
    /\ obs.dist = NoDist
    /\ current_frame # NoFrame

\* C21 (as claimed): the label recognize_face returns is, in one of the
\* galleries set_recognizer stored, the label of an entry that is at the
\* returned distance from the face and that no entry of that gallery is
\* nearer than, whatever set_recognizer calls ran during the call.
C21_LabelOfWinningEntry ==
    (obs.op = "recognize_face" /\ obs.id # NoId)
        => \E g \in Versions : \E i \in 1..Len(g) :
             /\ g[i].label = obs.id
             /\ Distance(g[i].enc, obs.q) = obs.dist
             /\ \A j \in 1..Len(g) : Distance(g[j].enc, obs.q) >= obs.dist

\* C22 (as claimed): whatever log_entry calls run at the same time, each
\* making its query before the other commits, no two rows of the table are
\* inside rows of the same employee and the same date.
C22_ConcurrentOpensOneInside ==
    \A i, j \in 1..Len(store) :
        (/\ i < j
         /\ store[i].employee_id = store[j].employee_id
         /\ store[i].date = store[j].date
         /\ store[i].status = "inside")
            => store[j].status # "inside"

\* C23 (as claimed): while a thread executes the loop, no employee stays
\* inside with now - last_seen > cooldown forever (an employee that is never
\* matched again stays overdue): the sweep marks it exited, on whatever
\* date the sweep runs and whatever rows the table holds then.
C23_AbsentEventuallyExited ==
    \A e \in Directory :
        []<>~(/\ StatusIs(current_status, e, "inside")
              /\ Has(last_seen, e)
              /\ Overdue(now, Get(last_seen, e))
              /\ is_running
              /\ Live # {})

\* C24: stop_camera leaves is_running false and self.camera None (the
\* device released); is_running then stays false until a
\* start_monitoring_thread call returns True; while it is false no thread
\* begins a tick; and unless monitoring is started again, every thread that
\* executes the loop leaves it.
C24_StopEndsLoop ==
    /\ [][obs'.op = "stop_camera" => (~is_running' /\ camera' = "none")]_vars
    /\ [][(~is_running /\ is_running')
            => (obs'.op = "start_monitoring_thread" /\ obs'.ret)]_vars
    /\ [][(~is_running /\ ~is_running')
            => \A t \in DOMAIN pc :
                 pc[t] = "loop" => pc'[t] \in {"loop", "none"}]_vars
    /\ (~is_running ~> (is_running \/ Live = {}))

\* C24 witness: a thread published a frame, stop_camera was called and the
\* thread has left the loop at its test of is_running; the device is
\* released.
C24_StoppedAndLeft ==
    /\ ~is_running
    /\ camera = "none"
    /\ current_frame # NoFrame
    /\ \A t \in DOMAIN pc : pc[t] = "none"

\* the sweep would call log_exit for employee e: inside, and last matched
\* more than the cooldown ago
Absent(e) ==
    /\ StatusIs(current_status, e, "inside")
    /\ Has(last_seen, e)
    /\ Overdue(now, Get(last_seen, e))

\* a check_exits call is the step
Sweeps == \E t \in DOMAIN pc : pc[t] = "sweep" /\ pc'[t] \in {"loop", "dead"}

\* C25: a check_exits call whose log_exit fails for an employee leaves the
\* status of the employee inside and last_seen unchanged; the employee then
\* stays inside and overdue in every step but a match of it or a restart;
\* and every check_exits call that finds an employee inside and overdue
\* calls log_exit for it.
C25_FailedCloseRetried ==
    /\ [][Sweeps
            => \A e \in Directory :
                 /\ e \in obs'.tried \ obs'.closed
                      => (/\ StatusIs(current_status', e, "inside")
                          /\ last_seen' = last_seen
                          /\ Absent(e)')
                 /\ Absent(e) => e \in obs'.tried]_vars
    /\ [][\A e \in Directory :
            (Absent(e) /\ ~Handles /\ run' = run)
                => (Absent(e)' \/ e \in obs'.closed)]_vars

\* C25 witness: the log_exit call of a sweep raised; the employee is still
\* inside and overdue, at the time of its last match.
C25_CloseFailed ==
    /\ obs.op = "check_exits"
    /\ obs.exc
    /\ \E e \in obs.tried \ obs.closed : Absent(e)

\* C26: a log_entry call (the store raising nothing) for an employee with
\* an inside row for today: when the row is younger than 5 minutes the call
\* fails and the table is as before; otherwise the call succeeds, that row
\* is exited with exit_time now, one row is added, the new inside row, and
\* every other row is as before. After every successful log_entry the new
\* row is the only inside row of the employee for today.
C26_OpenRefusesOrClosesPrior ==
    [][(Handles /\ obs'.called /\ ~obs'.exc)
         => /\ \A i \in ActiveRows(store, obs'.id, today) :
                 IF now - store[i].entry_time < EntryCooldown
                 THEN ~obs'.ok /\ store' = store
                 ELSE /\ obs'.ok
                      /\ Len(store') = Len(store) + 1
                      /\ store'[i] = [store[i] EXCEPT !.status = "exited",
                                                      !.exit_time = now]
                      /\ store'[Len(store')] = NewRow(obs'.id, now, today)
                      /\ \A j \in 1..Len(store) : j # i => store'[j] = store[j]
            /\ obs'.ok => ActiveRows(store', obs'.id, today) = {Len(store')}]_vars

\* C26 witness: log_entry found an inside row that was exactly 5 minutes
\* old, marked it exited and added the new row.
C26_PriorClosedAtCooldown ==
    /\ obs.op = "handle_detection"
    /\ obs.called /\ obs.ok
    /\ Len(store) = 2
    /\ store[1].status = "exited"
    /\ store[1].exit_time = now
    /\ now - store[1].entry_time = EntryCooldown
    /\ store[2] = NewRow(obs.id, now, today)

\* C27: as long as the date has not changed, over the process runs: an
\* employee whose status is inside has exactly one inside row for today in
\* the table, and an employee whose status is exited has none.
C27_StatusAgreesWithTable ==
    today = 0
        => \A e \in Directory :
             /\ StatusIs(current_status, e, "inside")
                  => Cardinality(ActiveRows(store, e, today)) = 1
             /\ StatusIs(current_status, e, "exited")
                  => ActiveRows(store, e, today) = {}

\* C27 witness: within one run and date the sweep closed the session of an
\* employee and a later match opened the next one.
C27_InsideAgain ==
    \E e \in Directory :
        /\ today = 0
        /\ run = 0
        /\ hist.closed[e] = 1
        /\ StatusIs(current_status, e, "inside")
        /\ Len(store) = 2
        /\ store[1].status = "exited"
        /\ ActiveRows(store, e, today) = {2}

\* C28 (as claimed): whenever is_running is true a thread executes the
\* loop (start_monitoring_thread is one step, so no call of it is in
\* progress in any state).
C28_RunningHasWorker == is_running => Live # {}

\* C29: a handle_detection call returns the entered message exactly when
\* its log_entry call succeeded, and then the table has got the new inside
\* row; a status becomes inside only in a handle_detection call for the
\* employee whose log_entry succeeded; and in every run the entered
\* messages of an employee are as many as its successful log_entry calls.
C29_EnteredIffOpened ==
    /\ [][Handles
            => /\ obs'.msg <=> (obs'.called /\ obs'.ok)
               /\ obs'.msg
                    => (/\ Len(store') = Len(store) + 1
                        /\ store'[Len(store')] = NewRow(obs'.id, now, today))
               /\ ~obs'.msg
                    => ActiveRows(store', obs'.id, today)
                         \subseteq ActiveRows(store, obs'.id, today)]_vars
    /\ [][\A e \in Directory :
            (~StatusIs(current_status, e, "inside")
               /\ StatusIs(current_status', e, "inside"))
                => (Handles /\ obs'.id = e /\ obs'.called /\ obs'.ok)]_vars
    /\ [](\A e \in Directory : hist.entered[e] = hist.opened[e])

\* C29 witness: after a session that was opened and closed, the log_entry
\* call of the next match failed: no message, one entered message so far.
C29_SilentFailedOpen ==
    /\ obs.op = "handle_detection"
    /\ obs.was = "exited"
    /\ obs.called /\ ~obs.ok /\ ~obs.msg
    /\ hist.entered[obs.id] = 1
    /\ hist.opened[obs.id] = 1
    /\ StatusIs(current_status, obs.id, "exited")

\* C30: a handle_detection call for an employee that follows, in the same
\* frame, a handle_detection call for the same employee sets last_seen of
\* the employee to now and changes nothing else: no log_entry call, no
\* message, the table and current_status as they were; so the frame emits
\* at most one entered message and opens at most one session for it.
C30_LaterDetectionsRefresh ==
    [][(Handles /\ obs.op = "handle_detection" /\ obs.id = obs'.id)
         => (/\ obs'.gap = 0
             /\ ~obs'.called
             /\ ~obs'.msg
             /\ store' = store
             /\ current_status' = current_status
             /\ last_seen' = Put(last_seen, obs'.id, now))]_vars

\* C30 witness: the two faces of one frame were matched to the same
\* employee, who had not been seen before; one entered message is out and
\* one session is open.
C30_TwiceInOneFrame ==
    /\ obs.op = "handle_detection"
    /\ obs.after = "handle_detection"
    /\ obs.was = "inside"
    /\ obs.gap = 0
    /\ hist.match[obs.id] = 2
    /\ hist.entered[obs.id] = 1
    /\ hist.opened[obs.id] = 1
    /\ Len(store) = 1

\* C31: the step that handles a face whose label has no Employee row
\* (get_employee_by_id returns None) draws the face as unknown and changes
\* neither last_seen nor current_status nor the table nor the counters of
\* calls and messages: no log_entry call, no entered message.
C31_StaleLabelChangesNothing ==
    [][(HandlesFace /\ obs'.id \notin Directory \cup {NoId})
         => (/\ obs'.op = "no_employee"
             /\ ~obs'.called
             /\ ~obs'.msg
             /\ UNCHANGED <<last_seen, current_status, store, hist>>)]_vars

\* C31 witness: a face within the tolerance of the gallery entry of the
\* stale label was handled while an employee is inside; the frame went on
\* and presence is as it was.
C31_StaleLabelMatched ==
    /\ obs.op = "no_employee"
    /\ obs.id = Stale
    /\ obs.dist # NoDist /\ obs.dist <= Tolerance
    /\ \E e \in Directory : StatusIs(current_status, e, "inside")
    /\ \A t \in DOMAIN pc : pc[t] # "dead"

\* C32: a stop_camera call and a start_monitoring_thread call change
\* neither last_seen nor current_status nor the table (no session is
\* closed, no sweep runs in them), and nothing changes them while no thread
\* executes the loop: the first tick after a restart of monitoring finds
\* the entries as the last tick left them.
C32_StopStartKeepsPresence ==
    /\ [][obs'.op \in {"stop_camera", "start_monitoring_thread"}
            => UNCHANGED <<last_seen, current_status, store>>]_vars
    /\ [][Live = {} => UNCHANGED <<last_seen, current_status, store>>]_vars

\* C32 witness: monitoring was stopped with an employee inside and started
\* again more than the cooldown after the last match; the employee is
\* still inside, with last_seen and the open session kept, and the new
\* thread has not run its first tick.
C32_RestartedWithPresence ==
    /\ obs.op = "start_monitoring_thread"
    /\ obs.ret
    /\ \E e \in Directory :
         /\ Absent(e)
         /\ ActiveRows(store, e, today) # {}
    /\ \E t \in DOMAIN pc : pc[t] = "loop"

=============================================================================
